---- MODULE Spec2Model ----
(***************************************************************************)
(* Model of the FOMO dashboard (src/fomo.py): the cached loader, the       *)
(* preprocessing pipeline and the filter block of the "Eksplorasi          *)
(* Interaktif" page.                                                       *)
(*                                                                         *)
(* A table is [cols : set of column names, rows : sequence of rows]; a row *)
(* maps every column name to a cell and cols says which columns exist.     *)
(* A cell is a record [k, n, d, s]:                                        *)
(*   k = "nan"  missing value (NaN / None)                                 *)
(*   k = "num"  the rational n/d in lowest terms, d > 0                    *)
(*   k = "inf"  np.inf (n = 1) or -np.inf (n = -1)                         *)
(*   k = "str"  the text s, a sequence of one-character strings            *)
(*   k = "tst"  a well-formed timestamp text (day n since 1970-01-01,      *)
(*              hour d), as found in the csv file                          *)
(*   k = "ts"   a parsed timestamp (day n, hour d)                         *)
(*   k = "nat"  NaT, the missing timestamp                                 *)
(*   k = "per"  a weekly period as text "start/end" (days n and d)         *)
(***************************************************************************)
EXTENDS Integers, Sequences, FiniteSets, TLC

\* ------------------------------------------------------------------ bounds
MaxRows == 2
MaxViewRows == 3
MaxSliderPos == 1
MaxColRows == 1
MaxCacheRows == 2
MaxFakRows == 6

\* ------------------------------------------------------------ arithmetic
Abs(x) == IF x < 0 THEN -x ELSE x

RECURSIVE Gcd(_, _)
Gcd(a, b) == IF b = 0 THEN a ELSE Gcd(b, a % b)

NaN == [k |-> "nan", n |-> 0, d |-> 1, s |-> <<>>]
NaT == [k |-> "nat", n |-> 0, d |-> 1, s |-> <<>>]

\* the number n/d (d # 0) in lowest terms with a positive denominator
Num(n, d) ==
    LET g == Gcd(Abs(n), Abs(d))
        sgn == IF d < 0 THEN -1 ELSE 1
    IN [k |-> "num", n |-> sgn * (n \div g), d |-> sgn * (d \div g), s |-> <<>>]

Int2Num(i) == Num(i, 1)
Str(s) == [k |-> "str", n |-> 0, d |-> 1, s |-> s]
TsText(day, hour) == [k |-> "tst", n |-> day, d |-> hour, s |-> <<>>]
Ts(day, hour) == [k |-> "ts", n |-> day, d |-> hour, s |-> <<>>]
Period(start, end) == [k |-> "per", n |-> start, d |-> end, s |-> <<>>]

IsNum(c) == c.k = "num"
\* Series.isna / notna: NaN and NaT are missing, everything else is a value
IsNa(c) == c.k \in {"nan", "nat"}

\* np.inf and -np.inf
Inf == [k |-> "inf", n |-> 1, d |-> 1, s |-> <<>>]
NegInf == [k |-> "inf", n |-> -1, d |-> 1, s |-> <<>>]
IsFloat(c) == c.k \in {"num", "inf"}

\* float comparisons; any comparison with NaN is false
Lt(a, b) ==
    /\ IsFloat(a) /\ IsFloat(b)
    /\ IF a.k = "inf" \/ b.k = "inf"
       THEN (a = NegInf /\ b # NegInf) \/ (b = Inf /\ a # Inf)
       ELSE a.n * b.d < b.n * a.d
Le(a, b) == IsFloat(a) /\ IsFloat(b) /\ (a = b \/ Lt(a, b))

\* float arithmetic on finite numbers: NaN propagates
Add(a, b) == IF IsNum(a) /\ IsNum(b) THEN Num(a.n * b.d + b.n * a.d, a.d * b.d) ELSE NaN
Sub(a, b) == IF IsNum(a) /\ IsNum(b) THEN Num(a.n * b.d - b.n * a.d, a.d * b.d) ELSE NaN
\* float division: x/0 is inf or -inf by the sign of x, 0/0 is NaN
Div(a, b) ==
    IF ~(IsNum(a) /\ IsNum(b)) THEN NaN
    ELSE IF b.n # 0 THEN Num(a.n * b.d, a.d * b.n)
    ELSE IF a.n > 0 THEN Inf
    ELSE IF a.n < 0 THEN NegInf
    ELSE NaN

\* ------------------------------------------------------------------ text
UpperChars == <<"A","B","C","D","E","F","G","H","I","J","K","L","M",
                "N","O","P","Q","R","S","T","U","V","W","X","Y","Z">>
LowerChars == <<"a","b","c","d","e","f","g","h","i","j","k","l","m",
                "n","o","p","q","r","s","t","u","v","w","x","y","z">>
Whitespace == {" ", "\t"}
DigitChars == <<"0","1","2","3","4","5","6","7","8","9">>

IsUpper(c) == \E i \in 1..26 : UpperChars[i] = c
IsLower(c) == \E i \in 1..26 : LowerChars[i] = c
IsCased(c) == IsUpper(c) \/ IsLower(c)
LowerChar(c) == IF IsUpper(c) THEN LowerChars[CHOOSE i \in 1..26 : UpperChars[i] = c] ELSE c
UpperChar(c) == IF IsLower(c) THEN UpperChars[CHOOSE i \in 1..26 : LowerChars[i] = c] ELSE c

\* str.lower
LowerText(s) == [i \in 1..Len(s) |-> LowerChar(s[i])]

\* str.strip: drop leading and trailing whitespace
RECURSIVE LStrip(_)
LStrip(s) == IF s # <<>> /\ Head(s) \in Whitespace THEN LStrip(Tail(s)) ELSE s
RECURSIVE RStrip(_)
RStrip(s) ==
    IF s # <<>> /\ s[Len(s)] \in Whitespace THEN RStrip(SubSeq(s, 1, Len(s) - 1)) ELSE s
StripText(s) == RStrip(LStrip(s))

\* str.replace(r"\s+", " ", regex=True): every whitespace run becomes one space
RECURSIVE CollapseWs(_)
CollapseWs(s) ==
    IF s = <<>> THEN <<>>
    ELSE IF Head(s) \in Whitespace
         THEN <<" ">> \o CollapseWs(LStrip(Tail(s)))
         ELSE <<Head(s)>> \o CollapseWs(Tail(s))

\* str.title: a cased character is upper-cased when the character before it
\* is not cased, lower-cased otherwise
TitleText(s) ==
    [i \in 1..Len(s) |->
        IF i > 1 /\ IsCased(s[i - 1]) THEN LowerChar(s[i]) ELSE UpperChar(s[i])]

\* text of a number literal made of digits only; -1 when s is no such text
RECURSIVE DigitsValue(_, _)
DigitsValue(s, acc) ==
    IF s = <<>> THEN acc
    ELSE IF \E i \in 1..10 : DigitChars[i] = Head(s)
         THEN DigitsValue(Tail(s), 10 * acc + (CHOOSE i \in 1..10 : DigitChars[i] = Head(s)) - 1)
         ELSE -1

\* --------------------------------------------------------- column names
C_timestamp == "timestamp"
C_fakultas == "fakultas"
C_program_studi == "program_studi"
C_uang_saku == "rata-rata_uang_saku_perbulan"
C_pengeluaran_fomo == "pengeluaran_untuk_fomo_per_bulan"
C_kemampuan == "kemampuan_mengelola_keuangan"
C_frek_pengeluaran == "frekuensi_fomo_pengeluaran"
C_pengaruh_emosi == "pengaruh_fomo_terhadap_emosi"
C_stres_finansial == "frekuensi_stres_karena_finansial"
C_hilang_semangat == "frekuensi_hilang_semangat_kuliah_karena_tekanan_finansial"
C_stres_fomo == "frekuensi_stres_fomo"
C_frek_kegiatan == "frekuensi_kegiatan_karena_fomo"
C_dukungan_numerik == "kebutuhan_akan_dukungan_emosional_dan_bantuan_psikologis_numerik"
C_skor_psikologis == "skor_psikologis"
C_sering_merasa_fomo == "sering_merasa_fomo"
C_dukungan == "kebutuhan_akan_dukungan_emosional_dan_bantuan_psikologis"

\* the columns of the csv file the program reads
RawCols ==
    {C_timestamp, C_fakultas, C_program_studi, C_uang_saku, C_pengeluaran_fomo,
     C_kemampuan, C_frek_pengeluaran, C_pengaruh_emosi, C_stres_finansial,
     C_hilang_semangat, C_stres_fomo, C_frek_kegiatan, C_dukungan_numerik,
     C_skor_psikologis, C_sering_merasa_fomo, C_dukungan}

\* the columns preprocess_data adds
DerivedCols ==
    {"hari", "jam", "minggu", "proporsi_fomo", "sisa_uang_saku", "kategori_proporsi",
     "kategori_keuangan", "kategori_fomo", "skor_fomo_relatif", "indeks_stres"}

AllCols == RawCols \cup DerivedCols

numeric_cols ==
    <<C_uang_saku, C_pengeluaran_fomo, C_kemampuan, C_frek_pengeluaran, C_pengaruh_emosi,
      C_stres_finansial, C_hilang_semangat, C_stres_fomo, C_frek_kegiatan,
      C_dukungan_numerik, C_skor_psikologis>>

stress_cols == <<C_pengaruh_emosi, C_stres_finansial, C_hilang_semangat, C_stres_fomo>>

\* ---------------------------------------------------------------- labels
L_nan == <<"n","a","n">>
L_NaT == <<"N","a","T">>
L_ya == <<"y","a">>
L_tidak == <<"t","i","d","a","k">>
L_Tidak == <<"T","i","d","a","k">>
L_Sering == <<"S","e","r","i","n","g">>
L_Jarang == <<"J","a","r","a","n","g">>
L_Rendah == <<"R","e","n","d","a","h"," ","(","<","2","0","%",")">>
L_Sedang == <<"S","e","d","a","n","g"," ","(","2","0","-","5","0","%",")">>
L_Tinggi == <<"T","i","n","g","g","i"," ","(",">","5","0","%",")">>
L_Kurang == <<"K","u","r","a","n","g">>
L_Cukup == <<"C","u","k","u","p">>
L_Baik == <<"B","a","i","k">>
L_Semua == <<"S","e","m","u","a">>
L_Imu == <<"F","a","k","u","l","t","a","s"," ","I","m","u"," ","S","o","s","i","a","l"," ","B","u","d","a","y","a"," ","D","a","n"," ","P","o","l","i","t","i","k">>
L_Ilmu == <<"F","a","k","u","l","t","a","s"," ","I","l","m","u"," ","S","o","s","i","a","l"," ","B","u","d","a","y","a"," ","D","a","n"," ","P","o","l","i","t","i","k">>
DayNames ==
    <<<<"M","o","n","d","a","y">>, <<"T","u","e","s","d","a","y">>, <<"W","e","d","n","e","s","d","a","y">>, <<"T","h","u","r","s","d","a","y">>,
      <<"F","r","i","d","a","y">>, <<"S","a","t","u","r","d","a","y">>, <<"S","u","n","d","a","y">>>>

\* ------------------------------------------------------- pandas helpers
HasCol(t, c) == c \in t.cols
HasCols(t, cs) == cs \subseteq t.cols
NRows(t) == Len(t.rows)

\* data[c] = series: the column is created or overwritten; the series holds
\* one cell per row
SetCol(t, c, series) ==
    [cols |-> t.cols \cup {c},
     rows |-> [i \in 1..Len(t.rows) |-> [t.rows[i] EXCEPT ![c] = series[i]]]]

\* pd.to_datetime(errors="coerce"): a well-formed text becomes a timestamp,
\* everything else NaT
ToDatetime(c) == IF c.k = "tst" THEN Ts(c.n, c.d) ELSE IF c.k = "ts" THEN c ELSE NaT

\* ToNumeric that leaves a text it cannot parse in place
ToNumeric_keep(c) ==
    IF IsNum(c) THEN c
    ELSE IF c.k = "str" /\ c.s # <<>> /\ DigitsValue(c.s, 0) >= 0
         THEN Int2Num(DigitsValue(c.s, 0))
         ELSE c

\* pd.to_numeric(errors="coerce"): numbers stay, a text of digits is parsed,
\* everything else becomes NaN
ToNumeric(c) ==
    IF IsNum(c) THEN c
    ELSE IF c.k = "str" /\ c.s # <<>> /\ DigitsValue(c.s, 0) >= 0
         THEN Int2Num(DigitsValue(c.s, 0))
         ELSE NaN

\* AsTypeStr that leaves a missing value missing
AsTypeStr_keepna(c) == IF c.k = "str" THEN c ELSE NaN

\* Series.astype(str) of a text column: the missing marker becomes the text "nan"
AsTypeStr(c) == IF c.k = "str" THEN c ELSE Str(L_nan)

\* Series.str.strip / lower / title / replace(r"\s+", " "): they apply to
\* texts, a missing value stays missing
StrStrip(c) == IF c.k = "str" THEN Str(StripText(c.s)) ELSE NaN
StrLower(c) == IF c.k = "str" THEN Str(LowerText(c.s)) ELSE NaN
StrTitle(c) == IF c.k = "str" THEN Str(TitleText(c.s)) ELSE NaN
StrCollapseWs(c) == IF c.k = "str" THEN Str(CollapseWs(c.s)) ELSE NaN

\* Series.fillna(v)
FillNa(c, v) == IF IsNa(c) THEN v ELSE c

\* Series.replace(a, b)
Replace(c, a, b) == IF c = a THEN b ELSE c

\* Series.clip(lower=lo)
ClipLower(c, lo) == IF Lt(c, lo) THEN lo ELSE c

\* Cut with right=False: the bins are [b1, b2), [b2, b3), ...
Cut_leftclosed(x, bins, labels) ==
    LET id == Cardinality({i \in 1..Len(bins) : Le(bins[i], x)})
    IN IF ~IsFloat(x) \/ id = 0 \/ id = Len(bins) THEN NaN ELSE Str(labels[id])

\* Cut without include_lowest: the first bin does not contain its lower edge
Cut_nolowest(x, bins, labels) ==
    LET id == Cardinality({i \in 1..Len(bins) : Lt(bins[i], x)})
    IN IF ~IsFloat(x) \/ id = 0 \/ id = Len(bins) THEN NaN ELSE Str(labels[id])

\* pd.cut(x, bins, labels, right=True, include_lowest=True): the bins are
\* (b1, b2], (b2, b3], ... and the first one also contains b1; a value outside
\* every bin, and a missing value, get no label
Cut(x, bins, labels) ==
    LET ids == Cardinality({i \in 1..Len(bins) : Lt(bins[i], x)})
        id == IF x = bins[1] THEN 1 ELSE ids
    IN IF ~IsFloat(x) \/ id = 0 \/ id = Len(bins) THEN NaN ELSE Str(labels[id])

\* the elements of a sequence as a set
Range(f) == {f[i] : i \in DOMAIN f}

RECURSIVE SumCells(_)
SumCells(q) == IF q = <<>> THEN Int2Num(0) ELSE Add(Head(q), SumCells(Tail(q)))

\* the non-missing cells of a row in the given columns, in column order
Present(row, cs) == SelectSeq([i \in 1..Len(cs) |-> row[cs[i]]], LAMBDA c : ~IsNa(c))

\* DataFrame.sum(axis=1): missing cells are skipped, a row of none sums to 0
RowSum(row, cs) == SumCells(Present(row, cs))

\* RowMean that divides by the number of columns, counting a missing cell as 0
RowMean_allcols(row, cs) ==
    IF Present(row, cs) = <<>> THEN NaN ELSE Div(SumCells(Present(row, cs)), Int2Num(Len(cs)))

\* DataFrame.mean(axis=1): the mean of the non-missing cells, NaN if none
RowMean(row, cs) ==
    LET p == Present(row, cs)
    IN IF p = <<>> THEN NaN ELSE Div(SumCells(p), Int2Num(Len(p)))

\* ----------------------------------------------------------- load_data
\* the body of load_data: read the file, parse the timestamp column when present
ReadAndParse(file) ==
    IF HasCol(file, C_timestamp)
    THEN SetCol(file, C_timestamp,
                [i \in 1..NRows(file) |-> ToDatetime(file.rows[i][C_timestamp])])
    ELSE file

\* ------------------------------------------------------ preprocess_data
\* strip, collapse whitespace runs, title-case (lines 27-33 and 42-44)
NormaliseText(c) ==
    StrTitle(StrCollapseWs(StrStrip(AsTypeStr(c))))

StepFakultas(t) ==
    IF HasCol(t, C_fakultas)
    THEN SetCol(t, C_fakultas,
                [i \in 1..NRows(t) |->
                    Replace(Replace(NormaliseText(t.rows[i][C_fakultas]), Str(L_Imu), Str(L_Ilmu)),
                            Str(L_Ilmu), Str(L_Ilmu))])
    ELSE t

StepProgram(t) ==
    IF HasCol(t, C_program_studi)
    THEN SetCol(t, C_program_studi,
                [i \in 1..NRows(t) |-> NormaliseText(t.rows[i][C_program_studi])])
    ELSE t

RECURSIVE StepNumeric(_, _)
StepNumeric(t, i) ==
    IF i > Len(numeric_cols) THEN t
    ELSE LET col == numeric_cols[i]
         IN StepNumeric(IF HasCol(t, col)
                        THEN SetCol(t, col, [j \in 1..NRows(t) |-> ToNumeric(t.rows[j][col])])
                        ELSE t,
                        i + 1)

\* Series.dt.day_name(): 1970-01-01 (day 0) is a Thursday; NaT gives NaN
DayName(c) == IF c.k = "ts" THEN Str(DayNames[((c.n + 3) % 7) + 1]) ELSE NaN
\* Series.dt.hour: NaT gives NaN
Hour(c) == IF c.k = "ts" THEN Int2Num(c.d) ELSE NaN
\* Series.dt.to_period("W"): the Monday-to-Sunday week of the day; NaT stays NaT
ToPeriodW(c) ==
    IF c.k = "ts" THEN Period(c.n - ((c.n + 3) % 7), c.n - ((c.n + 3) % 7) + 6) ELSE NaT
\* astype(str) of a period column: "start/end", and the text "NaT" for NaT
PeriodAsStr(c) == IF c.k = "per" THEN c ELSE Str(L_NaT)

StepTime(t) ==
    IF HasCol(t, C_timestamp)
    THEN LET ts == [i \in 1..NRows(t) |-> t.rows[i][C_timestamp]]
         IN SetCol(SetCol(SetCol(t, "hari", [i \in 1..NRows(t) |-> DayName(ts[i])]),
                          "jam", [i \in 1..NRows(t) |-> Hour(ts[i])]),
                   "minggu", [i \in 1..NRows(t) |-> PeriodAsStr(ToPeriodW(ts[i]))])
    ELSE t

ProporsiBins == <<Int2Num(0), Num(2, 10), Num(5, 10), Inf>>
ProporsiLabels == <<L_Rendah, L_Sedang, L_Tinggi>>

\* Proporsi without the clip at 0
Proporsi_noclip(row) ==
    Div(row[C_pengeluaran_fomo], Replace(row[C_uang_saku], Int2Num(0), NaN))

\* lines 71-73
Proporsi(row) ==
    LET uang == Replace(row[C_uang_saku], Int2Num(0), NaN)
        proporsi == Div(row[C_pengeluaran_fomo], uang)
    IN ClipLower(proporsi, Int2Num(0))

\* StepProporsi that subtracts from the allowance with 0 replaced by NaN
StepProporsi_sisa_nan(t) ==
    IF HasCols(t, {C_pengeluaran_fomo, C_uang_saku})
    THEN LET t1 == SetCol(t, "proporsi_fomo", [i \in 1..NRows(t) |-> Proporsi(t.rows[i])])
             t2 == SetCol(t1, "sisa_uang_saku",
                          [i \in 1..NRows(t) |->
                              Sub(Replace(t1.rows[i][C_uang_saku], Int2Num(0), NaN),
                                  t1.rows[i][C_pengeluaran_fomo])])
         IN SetCol(t2, "kategori_proporsi",
                   [i \in 1..NRows(t) |->
                       Cut(t2.rows[i]["proporsi_fomo"], ProporsiBins, ProporsiLabels)])
    ELSE t

StepProporsi(t) ==
    IF HasCols(t, {C_pengeluaran_fomo, C_uang_saku})
    THEN LET t1 == SetCol(t, "proporsi_fomo", [i \in 1..NRows(t) |-> Proporsi(t.rows[i])])
             t2 == SetCol(t1, "sisa_uang_saku",
                          [i \in 1..NRows(t) |->
                              Sub(t1.rows[i][C_uang_saku], t1.rows[i][C_pengeluaran_fomo])])
         IN SetCol(t2, "kategori_proporsi",
                   [i \in 1..NRows(t) |->
                       Cut(t2.rows[i]["proporsi_fomo"], ProporsiBins, ProporsiLabels)])
    ELSE t

KeuanganBins == <<Int2Num(0), Num(25, 10), Num(35, 10), Int2Num(5)>>
KeuanganLabels == <<L_Kurang, L_Cukup, L_Baik>>

StepKeuangan(t) ==
    IF HasCol(t, C_kemampuan)
    THEN SetCol(t, "kategori_keuangan",
                [i \in 1..NRows(t) |-> Cut(t.rows[i][C_kemampuan], KeuanganBins, KeuanganLabels)])
    ELSE t

\* Series.map({"ya": "Sering", "tidak": "Jarang"}): a value that is no key maps to NaN
MapFomo(c) ==
    IF c = Str(L_ya) THEN Str(L_Sering)
    ELSE IF c = Str(L_tidak) THEN Str(L_Jarang)
    ELSE NaN

\* KategoriFomo without the final fillna("Jarang")
KategoriFomo_nodefault(row) ==
    MapFomo(StrLower(StrStrip(FillNa(row[C_sering_merasa_fomo], Str(L_Tidak)))))

KategoriFomo(row) ==
    FillNa(MapFomo(StrLower(StrStrip(FillNa(row[C_sering_merasa_fomo], Str(L_Tidak))))),
           Str(L_Jarang))

StepFomo(t) ==
    IF HasCol(t, C_sering_merasa_fomo)
    THEN SetCol(t, "kategori_fomo", [i \in 1..NRows(t) |-> KategoriFomo(t.rows[i])])
    ELSE t

SkorFomoRelatif(row) ==
    Div(RowSum(row, <<C_frek_pengeluaran, C_frek_kegiatan>>), Int2Num(2))

\* StepSkor guarded by "one of the two columns is there"
StepSkor_anycol(t) ==
    IF HasCol(t, C_frek_pengeluaran) \/ HasCol(t, C_frek_kegiatan)
    THEN SetCol(t, "skor_fomo_relatif", [i \in 1..NRows(t) |-> SkorFomoRelatif(t.rows[i])])
    ELSE t

StepSkor(t) ==
    IF HasCols(t, {C_frek_pengeluaran, C_frek_kegiatan})
    THEN SetCol(t, "skor_fomo_relatif", [i \in 1..NRows(t) |-> SkorFomoRelatif(t.rows[i])])
    ELSE t

stress_ok(t) == SelectSeq(stress_cols, LAMBDA c : HasCol(t, c))

StepStres(t) ==
    IF stress_ok(t) # <<>>
    THEN SetCol(t, "indeks_stres", [i \in 1..NRows(t) |-> RowMean(t.rows[i], stress_ok(t))])
    ELSE t

preprocess_data(t) ==
    StepStres(StepSkor(StepFomo(StepKeuangan(StepProporsi(StepTime(
        StepNumeric(StepProgram(StepFakultas(t)), 1)))))))

\* ------------------------------------------- Eksplorasi Interaktif page
\* df[col].dropna().unique(): the distinct values of a column
Unique(t, col) == {t.rows[i][col] : i \in 1..NRows(t)} \ {NaN, NaT}

\* options of a selectbox: "Semua" and the values of the column; only
\* "Semua" when the column does not exist (lines 715-736)
SelectOptions(t, col) == {Str(L_Semua)} \cup (IF HasCol(t, col) THEN Unique(t, col) ELSE {})

\* Series.max(): the largest non-missing value; the column has one
ColMax(t, col) ==
    CHOOSE m \in Unique(t, col) : \A v \in Unique(t, col) : Le(v, m)

\* round(x, 2) for x >= 0: the nearest multiple of 1/100, a tie goes to the even one
\* (on exact values; the result only matters above 0.05, see step_size)
Round2(x) ==
    LET q == (x.n * 100) \div x.d
        r == (x.n * 100) % x.d
        up == 2 * r > x.d \/ (2 * r = x.d /\ q % 2 = 1)
    IN Num(IF up THEN q + 1 ELSE q, 100)

MaxNum(a, b) == IF Lt(a, b) THEN b ELSE a

HasSlider(t) == HasCol(t, "proporsi_fomo") /\ Unique(t, "proporsi_fomo") # {}

\* lines 738-740
prop_max_val(t) ==
    LET m == ColMax(t, "proporsi_fomo")
    IN IF Le(m, Int2Num(0)) THEN Int2Num(1) ELSE m

\* line 741
step_size(t) == MaxNum(Round2(Div(prop_max_val(t), Int2Num(20))), Num(5, 100))

\* the positions the slider offers: 0, step, 2*step, ... up to the maximum,
\* and the maximum itself (the first MaxSliderPos steps are explored)
SliderPositions(t) ==
    {p \in {Num(j * step_size(t).n, step_size(t).d) : j \in 0..MaxSliderPos} :
        Le(p, prop_max_val(t))} \cup {prop_max_val(t)}

\* the values the range slider can return: None (modelled <<>>) without the
\* ratio column, else a pair lower <= upper (lines 737-750)
SliderChoices(t) ==
    IF HasSlider(t)
    THEN {<<lo, hi>> : lo \in SliderPositions(t), hi \in SliderPositions(t)}
            \cap {pr \in Seq(SliderPositions(t)) : Len(pr) = 2 /\ Le(pr[1], pr[2])}
    ELSE {<<>>}

\* the values the multiselect can return; None and [] are both modelled {}
ProgramChoices(t) == IF HasCol(t, C_program_studi) THEN SUBSET Unique(t, C_program_studi) ELSE {{}}

\* data[mask]: the rows of data (index labels into the table) the boolean
\* mask, itself indexed by label, marks
Filter(data, mask) == SelectSeq(data, LAMBDA i : mask[i])

\* FilterEq that renumbers the rows it keeps (a reset_index after the mask), so
\* that the labels no longer name rows of the table
FilterEq_resetindex(t, data, col, val) ==
    LET kept == SelectSeq(data, LAMBDA i : t.rows[i][col] = val)
    IN [j \in 1..Len(kept) |-> j]

\* data[data[col] == val]
FilterEq(t, data, col, val) == Filter(data, [i \in 1..NRows(t) |-> t.rows[i][col] = val])

\* FilterBetween with inclusive="neither"
FilterBetween_open(t, data, lower, upper) ==
    Filter(data, [i \in 1..NRows(t) |-> /\ Lt(lower, t.rows[i]["proporsi_fomo"])
                                         /\ Lt(t.rows[i]["proporsi_fomo"], upper)])

\* data[data["proporsi_fomo"].between(lower, upper)]
FilterBetween(t, data, lower, upper) ==
    Filter(data, [i \in 1..NRows(t) |-> /\ Le(lower, t.rows[i]["proporsi_fomo"])
                                         /\ Le(t.rows[i]["proporsi_fomo"], upper)])

\* data[data["program_studi"].isin(program)]
FilterIsin(t, data, prog) ==
    Filter(data, [i \in 1..NRows(t) |-> t.rows[i][C_program_studi] \in prog])

\* the five if statements of lines 760-770, one filter each
ByFakultas(t, data, fak) ==
    IF fak # Str(L_Semua) THEN FilterEq(t, data, C_fakultas, fak) ELSE data
ByFomo(t, data, fom) ==
    IF fom # Str(L_Semua) /\ HasCol(t, "kategori_fomo")
    THEN FilterEq(t, data, "kategori_fomo", fom) ELSE data
ByKeuangan(t, data, keu) ==
    IF keu # Str(L_Semua) /\ HasCol(t, "kategori_keuangan")
    THEN FilterEq(t, data, "kategori_keuangan", keu) ELSE data
\* ByRange that does not filter while the slider is at its default (0, max)
ByRange_skipdefault(t, data, rng) ==
    IF rng # <<>> /\ HasCol(t, "proporsi_fomo") /\ rng # <<Int2Num(0), prop_max_val(t)>>
    THEN FilterBetween(t, data, rng[1], rng[2]) ELSE data

ByRange(t, data, rng) ==
    IF rng # <<>> /\ HasCol(t, "proporsi_fomo")
    THEN FilterBetween(t, data, rng[1], rng[2]) ELSE data
ByProgram(t, data, prog) ==
    IF prog # {} THEN FilterIsin(t, data, prog) ELSE data

\* data = df.copy(): every row, by index label
AllRows(t) == [i \in 1..NRows(t) |-> i]

\* lines 759-770
ApplyFilters(t, fak, fom, keu, rng, prog) ==
    ByProgram(t, ByRange(t, ByKeuangan(t, ByFomo(t, ByFakultas(t, AllRows(t), fak), fom), keu),
                         rng), prog)

\* Series.mean() of a group: the mean of the non-missing values, NaN if none
MeanOf(t, data, col) ==
    LET p == SelectSeq([j \in 1..Len(data) |-> t.rows[data[j]][col]], LAMBDA c : ~IsNa(c))
    IN IF p = <<>> THEN NaN ELSE Div(SumCells(p), Int2Num(Len(p)))

\* GroupKeys of a categorical column: every category of the table is a group,
\* whether data has a row of it or not
GroupKeys_all(t, data, col) == Unique(t, col)

\* the group keys groupby(col) finds in data: the distinct non-missing values
GroupKeys(t, data, col) == {t.rows[data[j]][col] : j \in 1..Len(data)} \ {NaN, NaT}

\* data.groupby(key)[val].mean().reset_index(): one row per group found in
\* data (the order of the rows is not modelled)
GroupMean(t, data, key, val) ==
    {[group |-> g, mean |-> MeanOf(t, FilterEq(t, data, key, g), val)] :
        g \in GroupKeys(t, data, key)}

\* data[col].value_counts().reset_index(): one row per distinct non-missing
\* value (the order of the rows is not modelled)
ValueCounts(t, data, col) ==
    {[value |-> v, count |-> Len(FilterEq(t, data, col, v))] : v \in GroupKeys(t, data, col)}

\* lines 814-836: what the stress panel shows
StressPanel(t, data) ==
    IF HasCols(t, {"kategori_fomo", "indeks_stres"})
    THEN IF GroupMean(t, data, "kategori_fomo", "indeks_stres") # {} THEN "chart" ELSE "info_empty"
    ELSE "info_unavailable"

\* lines 838-860: what the support panel shows
SupportPanel(t, data) ==
    IF HasCol(t, C_dukungan)
    THEN IF ValueCounts(t, data, C_dukungan) # {} THEN "chart" ELSE "info_empty"
    ELSE "info_unavailable"

\* ------------------------------------------- Analisis & Visualisasi page
\* the characters of the model in code point order
CodeOrder == <<"\t", " ">> \o DigitChars \o UpperChars \o LowerChars
CharRank(c) == CHOOSE i \in 1..Len(CodeOrder) : CodeOrder[i] = c

\* a < b for two texts, as Python compares str
RECURSIVE TextLt(_, _)
TextLt(a, b) ==
    IF a = <<>> THEN b # <<>>
    ELSE IF b = <<>> THEN FALSE
    ELSE IF Head(a) = Head(b) THEN TextLt(Tail(a), Tail(b))
    ELSE CharRank(Head(a)) < CharRank(Head(b))

\* the labels of a set of text cells in ascending order: groupby sorts its
\* group keys
RECURSIVE SortedLabels(_)
SortedLabels(S) ==
    IF S = {} THEN <<>>
    ELSE LET m == CHOOSE x \in S : \A y \in S \ {x} : TextLt(x.s, y.s)
         IN <<m>> \o SortedLabels(S \ {m})

\* every arrangement of a set in a sequence
RECURSIVE Perms(_)
Perms(S) ==
    IF S = {} THEN {<<>>}
    ELSE UNION {{<<x>> \o q : q \in Perms(S \ {x})} : x \in S}

\* df.groupby("fakultas").size().reset_index(name="Jumlah"): one row per
\* faculty label with the number of its rows (the order of the rows is not
\* modelled)
GroupSize(t, col) ==
    {[group |-> g, count |-> Len(FilterEq(t, AllRows(t), col, g))] :
        g \in GroupKeys(t, AllRows(t), col)}

\* df.groupby("fakultas")["proporsi_fomo"].mean().reset_index(): one row per
\* faculty label, in label order
FakMeans(t) ==
    LET keys == SortedLabels(GroupKeys(t, AllRows(t), C_fakultas))
    IN [j \in 1..Len(keys) |->
           [group |-> keys[j],
            mean |-> MeanOf(t, FilterEq(t, AllRows(t), C_fakultas, keys[j]), "proporsi_fomo")]]

\* the rows with a defined mean in descending order of the mean; rows with
\* equal means in any order
RECURSIVE DescOrders(_)
DescOrders(S) ==
    IF S = {} THEN {<<>>}
    ELSE LET top == {r \in S : \A q \in S : Le(q.mean, r.mean)}
         IN {p \o rest : p \in Perms(top), rest \in DescOrders(S \ top)}

\* sort_values("proporsi_fomo", ascending=False) with the default
\* kind="quicksort" and na_position="last": the sort is not stable, so rows
\* with equal means come out in an order the numpy build decides; rows whose
\* mean is NaN follow in their original order
SortValuesDesc(q) ==
    {p \o SelectSeq(q, LAMBDA r : IsNa(r.mean)) :
        p \in DescOrders({q[j] : j \in {i \in 1..Len(q) : ~IsNa(q[i].mean)}})}

\* DataFrame.head(5)
Head5(q) == SubSeq(q, 1, IF Len(q) < 5 THEN Len(q) ELSE 5)

\* lines 377-385: the tables top_proporsi can be
TopProporsi(t) ==
    IF HasCols(t, {C_fakultas, "proporsi_fomo"})
          /\ \E i \in 1..NRows(t) : ~IsNa(t.rows[i]["proporsi_fomo"])
    THEN {Head5(q) : q \in SortValuesDesc(FakMeans(t))}
    ELSE {<<>>}

\* the rows pd.crosstab counts: both categories defined
CrossRowsOf(t) ==
    {i \in 1..NRows(t) : ~IsNa(t.rows[i]["kategori_fomo"]) /\ ~IsNa(t.rows[i]["kategori_keuangan"])}

CrossCount(t, r, c) ==
    Cardinality({i \in CrossRowsOf(t) :
                    t.rows[i]["kategori_fomo"] = r /\ t.rows[i]["kategori_keuangan"] = c})

\* Crosstab with normalize="columns": each count over the total of its column
Crosstab_bycolumn(t) ==
    LET rs == {t.rows[i]["kategori_fomo"] : i \in CrossRowsOf(t)}
        cs == {t.rows[i]["kategori_keuangan"] : i \in CrossRowsOf(t)}
    IN [r \in rs |-> [c \in cs |->
           Num(100 * CrossCount(t, r, c),
               Cardinality({i \in CrossRowsOf(t) : t.rows[i]["kategori_keuangan"] = c}))]]

\* pd.crosstab(kategori_fomo, kategori_keuangan, normalize="index") * 100
\* (lines 569-573): a row per FOMO category and a column per bucket that
\* occur in the counted rows; each count over the total of its row, times 100
Crosstab(t) ==
    LET rs == {t.rows[i]["kategori_fomo"] : i \in CrossRowsOf(t)}
        cs == {t.rows[i]["kategori_keuangan"] : i \in CrossRowsOf(t)}
    IN [r \in rs |-> [c \in cs |->
           Num(100 * CrossCount(t, r, c),
               Cardinality({i \in CrossRowsOf(t) : t.rows[i]["kategori_fomo"] = r}))]]

\* ------------------------------------------------------------ input files
SeqsUpTo(S, n) == UNION {[1..k -> S] : k \in 0..n}

T_fk_a == <<"f","k"," ","a">>
T_fk_b == <<" ","F","k"," ","\t"," ","b"," ">>
T_imu == <<"f","a","k","u","l","t","a","s"," ","i","m","u"," ","s","o","s","i","a","l"," "," ","b","u","d","a","y","a"," ","d","a","n"," ","p","o","l","i","t","i","k">>
T_si == <<"s","i">>
T_ti == <<"T","I"," ">>
T_Ya == <<"Y","a">>
T_YA == <<" ","Y","A","\t">>
T_ya_pad == <<" ","y","a"," ">>
T_y_a == <<"y"," ","a">>
T_mungkin == <<"m","u","n","g","k","i","n">>
T_abc == <<"a","b","c">>
T_12 == <<"1","2">>

\* a complete answer; the row sets below vary some of its cells
BaseRow ==
    [c \in AllCols |->
        CASE c = C_timestamp -> TsText(19723, 9)
          [] c = C_fakultas -> Str(T_fk_a)
          [] c = C_program_studi -> Str(T_si)
          [] c = C_uang_saku -> Int2Num(10)
          [] c = C_pengeluaran_fomo -> Int2Num(3)
          [] c = C_sering_merasa_fomo -> Str(T_Ya)
          [] c = C_dukungan -> Str(T_Ya)
          [] c \in DerivedCols -> NaN
          [] OTHER -> Int2Num(3)]

With1(c1, v1) == [BaseRow EXCEPT ![c1] = v1]
With2(c1, v1, c2, v2) == [BaseRow EXCEPT ![c1] = v1, ![c2] = v2]

\* allowance and spending: missing, zero and negative values, and ratios on,
\* between and beyond the bucket edges 0, 0.2 and 0.5
RatioRows ==
    {With2(C_uang_saku, pr[1], C_pengeluaran_fomo, pr[2]) :
        pr \in {<<NaN, NaN>>, <<NaN, Int2Num(2)>>, <<Int2Num(0), Int2Num(0)>>,
                <<Int2Num(0), Int2Num(5)>>, <<Int2Num(10), NaN>>, <<Int2Num(10), Int2Num(-1)>>,
                <<Int2Num(10), Int2Num(0)>>, <<Int2Num(10), Int2Num(2)>>,
                <<Int2Num(10), Int2Num(3)>>, <<Int2Num(10), Int2Num(5)>>,
                <<Int2Num(10), Int2Num(6)>>, <<Int2Num(-10), Int2Num(2)>>,
                <<Int2Num(1000000), Int2Num(300000)>>}}

KeuanganRows ==
    {With1(C_kemampuan, v) :
        v \in {NaN, Int2Num(-1), Int2Num(0), Int2Num(1), Num(5, 2), Int2Num(3), Num(7, 2),
               Int2Num(5), Int2Num(6), Str(T_abc), Str(T_12)}}

FomoRows ==
    {With1(C_sering_merasa_fomo, v) :
        v \in {NaN, Str(L_ya), Str(T_Ya), Str(T_ya_pad), Str(T_YA), Str(L_tidak), Str(L_Tidak),
               Str(T_y_a), Str(T_mungkin), Str(<<>>)}}

SkorRows ==
    {With2(C_frek_pengeluaran, a, C_frek_kegiatan, b) :
        a \in {NaN, Int2Num(1), Int2Num(4)}, b \in {NaN, Int2Num(1), Int2Num(5)}}

\* the four stress answers are 1, 2, 4 and 5; the rows differ in which of
\* them are missing
StresRows ==
    {[BaseRow EXCEPT
        ![C_pengaruh_emosi] = IF 1 \in have THEN Int2Num(1) ELSE NaN,
        ![C_stres_finansial] = IF 2 \in have THEN Int2Num(2) ELSE NaN,
        ![C_hilang_semangat] = IF 3 \in have THEN Int2Num(4) ELSE NaN,
        ![C_stres_fomo] = IF 4 \in have THEN Int2Num(5) ELSE NaN] :
        have \in {{}, {1}, {4}, {1, 2}, {3, 4}, {1, 2, 3}, {2, 3, 4}, {1, 2, 3, 4}}}

TimeRows ==
    {With1(C_timestamp, v) :
        v \in {NaN, Str(T_abc), TsText(0, 0), TsText(3, 23), TsText(4, 9), TsText(19723, 12)}}

TextRows ==
    {With2(C_fakultas, pr[1], C_program_studi, pr[2]) :
        pr \in {<<NaN, NaN>>, <<NaN, Str(T_si)>>, <<Str(T_fk_a), NaN>>, <<Str(T_fk_a), Str(T_si)>>,
                <<Str(T_fk_b), Str(T_ti)>>, <<Str(T_fk_b), Str(T_si)>>,
                <<Str(T_imu), Str(T_ti)>>, <<Str(L_Ilmu), Str(T_si)>>}}

\* FOMO answer and capability score vary together
CrossRows ==
    {With2(C_sering_merasa_fomo, a, C_kemampuan, k) :
        a \in {Str(T_Ya), Str(L_tidak)}, k \in {NaN, Int2Num(2), Int2Num(3), Int2Num(4)}}

\* faculties "fk 1", "fk 2", ...
FkName(i) == <<"f", "k", " ", DigitChars[i + 1]>>

\* files for the faculty ranking: n answers with allowance 10; answer i spends
\* i or i + 1 (the first may also leave it open), so that neighbours can tie;
\* in shape 1 every answer is of its own faculty, the rows being in
\* descending label order; in shape 2 the last two answers share a faculty
RankFilesOf(n) ==
    {[cols |-> RawCols,
      rows |-> [i \in 1..n |->
                  With2(C_fakultas,
                        Str(FkName(IF shape = 1 THEN n + 1 - i
                                   ELSE IF n - i < 1 THEN 1 ELSE n - i)),
                        C_pengeluaran_fomo,
                        IF i \in up THEN Int2Num(i + 1)
                        ELSE IF i = 1 /\ open THEN NaN ELSE Int2Num(i))]] :
        shape \in {1, 2}, up \in SUBSET (1..n), open \in BOOLEAN}

RankFiles == UNION {RankFilesOf(n) : n \in 0..MaxFakRows}

\* the column sets tried with a row set: all columns, one of the varied
\* columns missing, all of them missing
ColSets(focus) == {RawCols, RawCols \ focus} \cup {RawCols \ {c} : c \in focus}

FilesOf(rows, focus) ==
    {[cols |-> cs, rows |-> rs] : cs \in ColSets(focus), rs \in SeqsUpTo(rows, MaxRows)}

\* the csv files of the preprocessing specification
PrepFiles ==
    FilesOf(RatioRows, {C_uang_saku, C_pengeluaran_fomo})
    \cup FilesOf(KeuanganRows, {C_kemampuan})
    \cup FilesOf(FomoRows, {C_sering_merasa_fomo})
    \cup FilesOf(SkorRows, {C_frek_pengeluaran, C_frek_kegiatan})
    \cup FilesOf(StresRows, Range(stress_cols))
    \cup FilesOf(TimeRows, {C_timestamp})
    \cup FilesOf(TextRows, {C_fakultas, C_program_studi})
    \cup FilesOf(CrossRows, {C_sering_merasa_fomo, C_kemampuan})
    \cup RankFiles

\* the source columns a derived field is computed from
DerivedSources ==
    {C_timestamp, C_uang_saku, C_pengeluaran_fomo, C_kemampuan, C_sering_merasa_fomo,
     C_frek_pengeluaran, C_frek_kegiatan} \cup Range(stress_cols)

\* the csv files of the missing-column specification: complete answers, and
\* every subset of the source columns missing from the file
ColFiles ==
    {[cols |-> RawCols \ miss, rows |-> rs] :
        miss \in SUBSET DerivedSources, rs \in SeqsUpTo({BaseRow}, MaxColRows)}

\* the csv files of the cache specification: the file is replaced by another
\* of these while the application runs
CacheFiles ==
    {[cols |-> RawCols, rows |-> rs] :
        rs \in SeqsUpTo({BaseRow, With1(C_kemampuan, Int2Num(1))}, MaxCacheRows)}

\* the answers of the exploration specification: they differ in every
\* column a filter or a panel of the page reads
ViewRow(f, p, s, k, u, e, x, du) ==
    [BaseRow EXCEPT ![C_fakultas] = f, ![C_program_studi] = p, ![C_sering_merasa_fomo] = s,
                    ![C_kemampuan] = k, ![C_uang_saku] = u, ![C_pengeluaran_fomo] = e,
                    ![C_pengaruh_emosi] = x, ![C_stres_finansial] = x,
                    ![C_hilang_semangat] = x, ![C_stres_fomo] = x, ![C_dukungan] = du]

ViewRows ==
    {ViewRow(Str(T_fk_a), Str(T_si), Str(T_Ya), Int2Num(2), Int2Num(20), Int2Num(1),
             Int2Num(4), Str(T_Ya)),
     ViewRow(Str(T_fk_a), Str(T_ti), Str(L_tidak), Int2Num(4), Int2Num(10), Int2Num(2),
             Int2Num(2), Str(L_Tidak)),
     ViewRow(Str(T_fk_b), Str(T_si), Str(T_Ya), NaN, Int2Num(0), Int2Num(1),
             NaN, NaN)}

ViewFiles ==
    {[cols |-> cs, rows |-> rs] :
        cs \in {RawCols, RawCols \ {C_fakultas, C_program_studi, C_dukungan},
                RawCols \ ({C_sering_merasa_fomo, C_kemampuan, C_uang_saku} \cup Range(stress_cols))},
        rs \in SeqsUpTo(ViewRows, MaxViewRows)}

\* ---------------------------------------------------------- state machine
VARIABLES
    csv,              \* the content of the csv file
    cache,            \* st.cache_data: the memoised result of load_data, <<>> when empty
    raw,              \* what load_data returned in this run of the script
    df,               \* the prepared table (line 113)
    pc,               \* position of the script run: "start", "loaded", "prepared", "done"
    fakultas, fomo, keuangan, prop_range, program,   \* widget values of the page
    data,             \* the filtered rows, as index labels into df
    stress_breakdown, support_filtered,              \* the two aggregations
    stress_panel, support_panel,                     \* what the two panels show
    fak,              \* respondents per faculty (lines 357-362)
    top_proporsi,     \* the faculty ranking (lines 378-385)
    crosstab          \* FOMO category by financial bucket, row percentages (lines 569-573)

vars == <<csv, cache, raw, df, pc, fakultas, fomo, keuangan, prop_range, program,
          data, stress_breakdown, support_filtered, stress_panel, support_panel,
          fak, top_proporsi, crosstab>>

viewVars == <<fakultas, fomo, keuangan, prop_range, program,
              data, stress_breakdown, support_filtered, stress_panel, support_panel>>

\* the locals of the Analisis & Visualisasi page
pageVars == <<fak, top_proporsi, crosstab>>

EmptyTable == [cols |-> {}, rows |-> <<>>]

InitWith(files) ==
    /\ csv \in files
    /\ cache = <<>>
    /\ raw = EmptyTable
    /\ df = EmptyTable
    /\ pc = "start"
    /\ fakultas = Str(L_Semua)
    /\ fomo = Str(L_Semua)
    /\ keuangan = Str(L_Semua)
    /\ prop_range = <<>>
    /\ program = {}
    /\ data = <<>>
    /\ stress_breakdown = {}
    /\ support_filtered = {}
    /\ stress_panel = "none"
    /\ support_panel = "none"
    /\ fak = {}
    /\ top_proporsi = <<>>
    /\ crosstab = <<>>

Init == InitWith(PrepFiles)
InitView == InitWith(ViewFiles)
InitCols == InitWith(ColFiles)
InitCache == InitWith(CacheFiles)

\* load_data() under st.cache_data: the body runs on a cache miss only
LoadData ==
    /\ pc = "start"
    /\ IF cache = <<>>
       THEN /\ raw' = ReadAndParse(csv)
            /\ cache' = <<ReadAndParse(csv)>>
       ELSE /\ raw' = cache[1]
            /\ cache' = cache
    /\ pc' = "loaded"
    /\ UNCHANGED <<csv, df>>
    /\ UNCHANGED viewVars
    /\ UNCHANGED pageVars

\* df = preprocess_data(load_data()), line 113
PreprocessData ==
    /\ pc = "loaded"
    /\ df' = preprocess_data(raw)
    /\ pc' = "prepared"
    /\ UNCHANGED <<csv, cache, raw>>
    /\ UNCHANGED viewVars
    /\ UNCHANGED pageVars

\* the Analisis & Visualisasi page is rendered: it has no filters and builds
\* its tables from df (lines 258-705)
RenderOther ==
    /\ pc = "prepared"
    /\ fak' = IF HasCol(df, C_fakultas) THEN GroupSize(df, C_fakultas) ELSE {}
    /\ top_proporsi' \in TopProporsi(df)
    /\ crosstab' = IF HasCols(df, {"kategori_fomo", "kategori_keuangan"})
                   THEN Crosstab(df) ELSE <<>>
    /\ pc' = "done"
    /\ UNCHANGED <<csv, cache, raw, df>>
    /\ UNCHANGED viewVars

\* the page filtering df itself instead of its copy
DfAfterPage_inplace(t, d) == [cols |-> t.cols, rows |-> [j \in 1..Len(d) |-> t.rows[d[j]]]]

\* df after the page has run: the page works on data = df.copy() (line 759),
\* every filter binds data to a new frame, and no statement assigns to df or
\* calls an in-place method on it
DfAfterPage(t, d) == t

\* the Eksplorasi Interaktif page is rendered with the widget values the
\* user has chosen (lines 707-860)
RenderEksplorasi ==
    /\ pc = "prepared"
    /\ \E sel \in SelectOptions(df, C_fakultas),
          fom \in SelectOptions(df, "kategori_fomo"),
          keu \in SelectOptions(df, "kategori_keuangan"),
          rng \in SliderChoices(df),
          prog \in ProgramChoices(df) :
            LET d == ApplyFilters(df, sel, fom, keu, rng, prog)
            IN /\ fakultas' = sel
               /\ fomo' = fom
               /\ keuangan' = keu
               /\ prop_range' = rng
               /\ program' = prog
               /\ data' = d
               /\ stress_breakdown' =
                     IF HasCols(df, {"kategori_fomo", "indeks_stres"})
                     THEN GroupMean(df, d, "kategori_fomo", "indeks_stres") ELSE {}
               /\ support_filtered' =
                     IF HasCol(df, C_dukungan) THEN ValueCounts(df, d, C_dukungan) ELSE {}
               /\ stress_panel' = StressPanel(df, d)
               /\ support_panel' = SupportPanel(df, d)
               /\ df' = DfAfterPage(df, d)
    /\ pc' = "done"
    /\ UNCHANGED <<csv, cache, raw>>
    /\ UNCHANGED pageVars

\* a user interaction: Streamlit runs the script again from its first line in
\* a fresh namespace; only the file and the cache of load_data outlive the run
Rerun ==
    /\ pc = "done"
    /\ pc' = "start"
    /\ raw' = EmptyTable
    /\ df' = EmptyTable
    /\ fakultas' = Str(L_Semua)
    /\ fomo' = Str(L_Semua)
    /\ keuangan' = Str(L_Semua)
    /\ prop_range' = <<>>
    /\ program' = {}
    /\ data' = <<>>
    /\ stress_breakdown' = {}
    /\ support_filtered' = {}
    /\ stress_panel' = "none"
    /\ support_panel' = "none"
    /\ fak' = {}
    /\ top_proporsi' = <<>>
    /\ crosstab' = <<>>
    /\ UNCHANGED <<csv, cache>>

\* the csv file is replaced on disk between two runs of the script; nothing
\* in the process is told: st.cache_data keys load_data on the function and
\* its (no) arguments, not on the file
ChangeFile ==
    /\ pc = "done"
    /\ csv' \in CacheFiles \ {csv}
    /\ UNCHANGED <<cache, raw, df, pc>>
    /\ UNCHANGED viewVars
    /\ UNCHANGED pageVars

Next == LoadData \/ PreprocessData \/ RenderOther \/ Rerun
Spec == Init /\ [][Next]_vars

NextView == LoadData \/ PreprocessData \/ RenderEksplorasi \/ Rerun
SpecView == InitView /\ [][NextView]_vars

SpecCols == InitCols /\ [][Next]_vars

NextCache == LoadData \/ PreprocessData \/ RenderOther \/ Rerun \/ ChangeFile
SpecCache == InitCache /\ [][NextCache]_vars

\* ------------------------------------------------------------- properties
\* the script has built df in this run
Prepared == pc \in {"prepared", "done"}
\* the Eksplorasi Interaktif page has been rendered in this run
Rendered == pc = "done"

Zero == Int2Num(0)
Cell(i, col) == df.rows[i][col]
Idx == 1..NRows(df)

\* C1: in the prepared table proporsi_fomo is missing or >= 0 in every row,
\* and it is missing in every row whose allowance is missing or 0, whatever
\* the FOMO spending is.
Thm_C1 ==
    (Prepared /\ HasCol(df, "proporsi_fomo")) =>
        \A i \in Idx :
            /\ Cell(i, "proporsi_fomo") = NaN \/ Le(Zero, Cell(i, "proporsi_fomo"))
            /\ (IsNa(Cell(i, C_uang_saku)) \/ Cell(i, C_uang_saku) = Zero)
                  => Cell(i, "proporsi_fomo") = NaN

\* a zero allowance with a non-zero spending, and a negative ratio clamped to 0
Wit_C1 ==
    /\ Prepared /\ HasCol(df, "proporsi_fomo")
    /\ \E i \in Idx : /\ Cell(i, C_uang_saku) = Zero
                      /\ Lt(Zero, Cell(i, C_pengeluaran_fomo))
                      /\ Cell(i, "proporsi_fomo") = NaN
    /\ \E i \in Idx : /\ Lt(Zero, Cell(i, C_uang_saku))
                      /\ Lt(Cell(i, C_pengeluaran_fomo), Zero)
                      /\ Cell(i, "proporsi_fomo") = Zero

\* C2: kategori_proporsi partitions the defined ratios: a defined ratio gets
\* exactly one of the three labels, Rendah for ratio <= 0.2 (0.2 included),
\* Sedang for 0.2 < ratio <= 0.5 (0.5 included), Tinggi above 0.5; a missing
\* ratio gets no label.
Thm_C2 ==
    (Prepared /\ HasCol(df, "kategori_proporsi")) =>
        \A i \in Idx :
            LET p == Cell(i, "proporsi_fomo")
                b == Cell(i, "kategori_proporsi")
            IN /\ IsNa(p) => b = NaN
               /\ ~IsNa(p) =>
                    /\ b \in {Str(L_Rendah), Str(L_Sedang), Str(L_Tinggi)}
                    /\ b = Str(L_Rendah) <=> Le(p, Num(1, 5))
                    /\ b = Str(L_Sedang) <=> (Lt(Num(1, 5), p) /\ Le(p, Num(1, 2)))
                    /\ b = Str(L_Tinggi) <=> Lt(Num(1, 2), p)

\* one row exactly at 0.2 and one exactly at 0.5
Wit_C2 ==
    /\ Prepared /\ HasCol(df, "kategori_proporsi")
    /\ \E i, j \in Idx :
          /\ Cell(i, "proporsi_fomo") = Num(1, 5) /\ Cell(i, "kategori_proporsi") = Str(L_Rendah)
          /\ Cell(j, "proporsi_fomo") = Num(1, 2) /\ Cell(j, "kategori_proporsi") = Str(L_Sedang)

\* a zero allowance leaves the bucket missing
Wit_C2_undefined ==
    /\ Prepared /\ HasCol(df, "kategori_proporsi")
    /\ \E i \in Idx : Cell(i, C_uang_saku) = Zero /\ Cell(i, "kategori_proporsi") = NaN

Cex_C4 ==
    (Prepared /\ HasCol(df, "skor_fomo_relatif")) =>
        \A i \in Idx :
            LET a == Cell(i, C_frek_pengeluaran)
                b == Cell(i, C_frek_kegiatan)
            IN IF IsNa(a) \/ IsNa(b)
               THEN Cell(i, "skor_fomo_relatif") = NaN
               ELSE Cell(i, "skor_fomo_relatif") = Div(Add(a, b), Int2Num(2))

\* the sum of the cells of a row over a set of columns
RECURSIVE SumOver(_, _)
SumOver(row, cs) ==
    IF cs = {} THEN 0
    ELSE LET c == CHOOSE x \in cs : TRUE
         IN row[c].n + SumOver(row, cs \ {c})

\* the stress columns of the table that hold a value in row i
StressPresent(i) == {c \in Range(stress_cols) \cap raw.cols : ~IsNa(Cell(i, c))}

\* C5: indeks_stres exists exactly when one of the four stress columns
\* exists; in each row it is the mean of the stress cells that are present,
\* and missing when none is.  (The stress answers are whole numbers.)
Thm_C5 ==
    Prepared =>
        /\ HasCol(df, "indeks_stres") <=> (Range(stress_cols) \cap raw.cols # {})
        /\ HasCol(df, "indeks_stres") =>
              \A i \in Idx :
                  IF StressPresent(i) = {}
                  THEN Cell(i, "indeks_stres") = NaN
                  ELSE /\ IsNum(Cell(i, "indeks_stres"))
                       /\ Cell(i, "indeks_stres").n * Cardinality(StressPresent(i))
                            = SumOver(df.rows[i], StressPresent(i)) * Cell(i, "indeks_stres").d

\* a row with some stress answers missing, and a row with none at all
Wit_C5 ==
    /\ Prepared /\ HasCol(df, "indeks_stres")
    /\ \E i, j \in Idx :
          /\ Cardinality(StressPresent(i)) \in {2, 3}
          /\ StressPresent(i) # Range(stress_cols) \cap raw.cols
          /\ IsNum(Cell(i, "indeks_stres"))
          /\ StressPresent(j) = {} /\ Cell(j, "indeks_stres") = NaN

\* none of the four stress columns exists
Wit_C5_nocolumn ==
    /\ Prepared /\ NRows(df) > 0
    /\ Range(stress_cols) \cap raw.cols = {} /\ ~HasCol(df, "indeks_stres")

\* C6 (as claimed): in a row whose timestamp is missing or unparseable, hari,
\* jam and minggu are all missing.
Cex_C6 ==
    (Prepared /\ HasCol(df, C_timestamp)) =>
        \A i \in Idx :
            IsNa(Cell(i, C_timestamp)) =>
                IsNa(Cell(i, "hari")) /\ IsNa(Cell(i, "jam")) /\ IsNa(Cell(i, "minggu"))

Five == Int2Num(5)
InValidRange(x) == Le(Zero, x) /\ Le(x, Five)

\* C7 (as claimed): each bucket of kategori_keuangan contains its lower edge:
\* Kurang is [0, 2.5), Cukup is [2.5, 3.5), Baik is [3.5, 5].
Cex_C7 ==
    (Prepared /\ HasCol(df, "kategori_keuangan")) =>
        \A i \in Idx :
            LET x == Cell(i, C_kemampuan)
                b == Cell(i, "kategori_keuangan")
            IN InValidRange(x) =>
                /\ b = Str(L_Kurang) <=> Lt(x, Num(5, 2))
                /\ b = Str(L_Cukup) <=> (Le(Num(5, 2), x) /\ Lt(x, Num(7, 2)))
                /\ b = Str(L_Baik) <=> Le(Num(7, 2), x)

\* C7 (amended): each bucket contains its upper edge: Kurang is [0, 2.5],
\* Cukup is (2.5, 3.5], Baik is (3.5, 5]; every score in [0, 5] gets exactly
\* one of the three labels.
Thm_C7 ==
    (Prepared /\ HasCol(df, "kategori_keuangan")) =>
        \A i \in Idx :
            LET x == Cell(i, C_kemampuan)
                b == Cell(i, "kategori_keuangan")
            IN InValidRange(x) =>
                /\ b \in {Str(L_Kurang), Str(L_Cukup), Str(L_Baik)}
                /\ b = Str(L_Kurang) <=> Le(x, Num(5, 2))
                /\ b = Str(L_Cukup) <=> (Lt(Num(5, 2), x) /\ Le(x, Num(7, 2)))
                /\ b = Str(L_Baik) <=> Lt(Num(7, 2), x)

\* one score exactly at 2.5 and one exactly at 3.5
Wit_C7 ==
    /\ Prepared /\ HasCol(df, "kategori_keuangan")
    /\ \E i, j \in Idx :
          /\ Cell(i, C_kemampuan) = Num(5, 2) /\ Cell(i, "kategori_keuangan") = Str(L_Kurang)
          /\ Cell(j, C_kemampuan) = Num(7, 2) /\ Cell(j, "kategori_keuangan") = Str(L_Cukup)

\* row i of df passes every filter that is active under the widget values
Keeps(i) ==
    /\ fakultas = Str(L_Semua) \/ Cell(i, C_fakultas) = fakultas
    /\ fomo = Str(L_Semua) \/ Cell(i, "kategori_fomo") = fomo
    /\ keuangan = Str(L_Semua) \/ Cell(i, "kategori_keuangan") = keuangan
    /\ prop_range = <<>> \/ (/\ Le(prop_range[1], Cell(i, "proporsi_fomo"))
                             /\ Le(Cell(i, "proporsi_fomo"), prop_range[2]))
    /\ program = {} \/ Cell(i, C_program_studi) \in program

\* C8: the filtered rows are exactly the rows of df that pass every active
\* filter, each once and in table order: "Semua" filters nothing, another
\* selection keeps the rows equal to it, the range keeps the closed interval
\* [lower, upper], a non-empty multiselect keeps the rows whose program is in it.
Thm_C8 ==
    Rendered =>
        /\ Range(data) = {i \in Idx : Keeps(i)}
        /\ \A j, k \in 1..Len(data) : j < k => data[j] < data[k]

\* every kind of filter is active, a row sits on the upper end of the range,
\* and the selection keeps some rows and drops others
Wit_C8 ==
    /\ Rendered
    /\ fakultas # Str(L_Semua) /\ fomo # Str(L_Semua) /\ keuangan # Str(L_Semua)
    /\ prop_range # <<>> /\ program # {}
    /\ data # <<>> /\ Len(data) < NRows(df)
    /\ \E j \in 1..Len(data) : Cell(data[j], "proporsi_fomo") = prop_range[2]
    /\ \E i \in Idx : Lt(prop_range[2], Cell(i, "proporsi_fomo"))

PredKinds == {"fakultas", "fomo", "keuangan", "range", "program"}

\* one filter of the page under the current widget values
ApplyPred(kind, d) ==
    CASE kind = "fakultas" -> ByFakultas(df, d, fakultas)
      [] kind = "fomo" -> ByFomo(df, d, fomo)
      [] kind = "keuangan" -> ByKeuangan(df, d, keuangan)
      [] kind = "range" -> ByRange(df, d, prop_range)
      [] kind = "program" -> ByProgram(df, d, program)

\* C9: the filters commute: any two of them applied in either order keep the
\* same rows, and the page's result is the one the reverse order of
\* application gives.
Thm_C9 ==
    Rendered =>
        /\ \A k1, k2 \in PredKinds :
              ApplyPred(k2, ApplyPred(k1, AllRows(df))) = ApplyPred(k1, ApplyPred(k2, AllRows(df)))
        /\ data = ApplyPred("fakultas", ApplyPred("fomo", ApplyPred("keuangan",
                      ApplyPred("range", ApplyPred("program", AllRows(df))))))

\* faculty and fomo category are both selected, each keeps rows the other
\* drops, and a row passes both
Wit_C9 ==
    /\ Rendered /\ fakultas # Str(L_Semua) /\ fomo # Str(L_Semua)
    /\ LET f == ApplyPred("fakultas", AllRows(df))
           c == ApplyPred("fomo", AllRows(df))
           fc == ApplyPred("fomo", f)
       IN fc # <<>> /\ fc # f /\ fc # c /\ f # c

\* C10: a selection that matches no row gives an empty result, both
\* aggregations over it are empty and each panel shows its notice instead
\* of a chart.
Thm_C10 ==
    (Rendered /\ data = <<>>) =>
        /\ stress_breakdown = {}
        /\ support_filtered = {}
        /\ stress_panel \in {"info_empty", "info_unavailable"}
        /\ support_panel \in {"info_empty", "info_unavailable"}

\* a non-empty table whose columns are all there, filtered down to no row
Wit_C10 ==
    /\ Rendered /\ data = <<>> /\ NRows(df) > 1
    /\ fakultas # Str(L_Semua) /\ fomo # Str(L_Semua)
    /\ stress_panel = "info_empty" /\ support_panel = "info_empty"


\* the source columns each derived field needs; indeks_stres needs one of
\* its four
Needs ==
    [f \in DerivedCols |->
        CASE f \in {"hari", "jam", "minggu"} -> {C_timestamp}
          [] f \in {"proporsi_fomo", "sisa_uang_saku", "kategori_proporsi"} ->
                {C_uang_saku, C_pengeluaran_fomo}
          [] f = "kategori_keuangan" -> {C_kemampuan}
          [] f = "kategori_fomo" -> {C_sering_merasa_fomo}
          [] f = "skor_fomo_relatif" -> {C_frek_pengeluaran, C_frek_kegiatan}
          [] OTHER -> {}]

Computable(f) ==
    IF f = "indeks_stres" THEN Range(stress_cols) \cap csv.cols # {}
    ELSE Needs[f] \subseteq csv.cols

\* C11: whatever subset of the source columns the file lacks, preprocess_data
\* returns a table with the rows and the columns of the file, in which a
\* derived field is present exactly when its source columns are in the file
\* (for indeks_stres: at least one of the four), and every present derived
\* field holds a value in every row of complete answers.
Thm_C11 ==
    Prepared =>
        /\ NRows(df) = NRows(csv)
        /\ df.cols \cap RawCols = csv.cols
        /\ \A f \in DerivedCols : HasCol(df, f) <=> Computable(f)
        /\ \A f \in DerivedCols \cap df.cols : \A i \in Idx : ~IsNa(Cell(i, f))

Wit_C11 ==
    /\ Prepared
    /\ NRows(df) >= 1
    /\ C_uang_saku \notin csv.cols
    /\ C_frek_kegiatan \notin csv.cols
    /\ C_frek_pengeluaran \in csv.cols
    /\ Range(stress_cols) \cap csv.cols = {C_stres_fomo}
    /\ ~HasCol(df, "proporsi_fomo")
    /\ ~HasCol(df, "skor_fomo_relatif")
    /\ HasCol(df, "hari")
    /\ HasCol(df, "indeks_stres")
    /\ Cell(1, "indeks_stres") = Int2Num(3)

\* the raw columns preprocess_data copies as they are
PlainCols == RawCols \ (Range(numeric_cols) \cup {C_timestamp, C_fakultas, C_program_studi})

\* C12: a numeric cell that is no number becomes missing and a timestamp cell
\* that is no timestamp becomes NaT, for that cell only: the row is kept, a
\* number stays the number it was, a well-formed timestamp is parsed, and the
\* cells of the columns the pipeline does not convert are the cells of the file.
Thm_C12 ==
    Prepared =>
        /\ NRows(df) = NRows(csv)
        /\ \A i \in Idx :
            /\ \A c \in Range(numeric_cols) \cap csv.cols :
                /\ IsNum(csv.rows[i][c]) => Cell(i, c) = csv.rows[i][c]
                /\ csv.rows[i][c] \in {NaN, Str(T_abc)} => Cell(i, c) = NaN
                /\ csv.rows[i][c] = Str(T_12) => Cell(i, c) = Int2Num(12)
            /\ C_timestamp \in csv.cols =>
                /\ csv.rows[i][C_timestamp].k = "tst" =>
                      Cell(i, C_timestamp) =
                          Ts(csv.rows[i][C_timestamp].n, csv.rows[i][C_timestamp].d)
                /\ csv.rows[i][C_timestamp] \in {NaN, Str(T_abc)} => Cell(i, C_timestamp) = NaT
            /\ \A c \in PlainCols \cap csv.cols : Cell(i, c) = csv.rows[i][c]

\* an unparseable capability score next to a row with a proper one
Wit_C12 ==
    /\ Prepared
    /\ C_kemampuan \in csv.cols
    /\ NRows(df) = 2
    /\ csv.rows[1][C_kemampuan] = Str(T_abc)
    /\ Cell(1, C_kemampuan) = NaN
    /\ Cell(1, C_uang_saku) = Int2Num(10)
    /\ Cell(1, "proporsi_fomo") = Num(3, 10)
    /\ Cell(2, C_kemampuan) = Num(7, 2)

\* an unparseable timestamp next to a row with a proper one
Wit_C12_timestamp ==
    /\ Prepared
    /\ C_timestamp \in csv.cols
    /\ NRows(df) = 2
    /\ csv.rows[1][C_timestamp] = Str(T_abc)
    /\ Cell(1, C_timestamp) = NaT
    /\ Cell(1, C_kemampuan) = Int2Num(3)
    /\ Cell(2, C_timestamp) = Ts(3, 23)

\* C14: a change of the file content leads to the prepared table being
\* recomputed: in every run of the script, the prepared table is the one
\* preprocess_data gives for the content the file has during that run (the
\* file is replaced between runs only).
Cex_C14 == pc = "prepared" => df = preprocess_data(ReadAndParse(csv))

\* C15: when the page is rendered df is the table preprocess_data returned,
\* and rendering the page, whatever the filter selection, leaves it as it
\* is: same columns, same rows, same cells.
Thm_C15 == [][pc = "prepared" => df = preprocess_data(raw) /\ df' = df]_vars

\* a selection that filters rows out
Wit_C15 ==
    /\ Rendered
    /\ fakultas # Str(L_Semua)
    /\ NRows(df) = 3
    /\ Len(data) = 1
    /\ df = preprocess_data(raw)

\* the sum of the cells of a cross-tab row over the columns S
RECURSIVE SumRow(_, _)
SumRow(f, S) ==
    IF S = {} THEN Zero
    ELSE LET c == CHOOSE x \in S : TRUE IN Add(f[c], SumRow(f, S \ {c}))

\* C16: the cross-tab has a row for exactly the FOMO categories that have at
\* least one answer with a defined financial bucket, no percentage is
\* negative, and the percentages of every row sum to 100.
Thm_C16 ==
    pc = "done" /\ HasCols(df, {"kategori_fomo", "kategori_keuangan"}) =>
        /\ DOMAIN crosstab =
              {Cell(i, "kategori_fomo") : i \in {j \in Idx : ~IsNa(Cell(j, "kategori_keuangan"))}}
        /\ \A r \in DOMAIN crosstab :
              /\ SumRow(crosstab[r], DOMAIN crosstab[r]) = Int2Num(100)
              /\ \A c \in DOMAIN crosstab[r] : Le(Zero, crosstab[r][c])

\* one FOMO category split over two buckets
Wit_C16 ==
    /\ pc = "done"
    /\ NRows(df) = 2
    /\ DOMAIN crosstab = {Str(L_Sering)}
    /\ DOMAIN crosstab[Str(L_Sering)] = {Str(L_Kurang), Str(L_Cukup)}
    /\ crosstab[Str(L_Sering)][Str(L_Kurang)] = Int2Num(50)
    /\ crosstab[Str(L_Sering)][Str(L_Cukup)] = Int2Num(50)

\* a FOMO category whose only answer has no bucket gets no row
Wit_C16_norow ==
    /\ pc = "done"
    /\ NRows(df) = 2
    /\ Cell(1, "kategori_fomo") = Str(L_Jarang)
    /\ IsNa(Cell(1, "kategori_keuangan"))
    /\ DOMAIN crosstab = {Str(L_Sering)}
    /\ DOMAIN crosstab[Str(L_Sering)] = {Str(L_Baik)}
    /\ crosstab[Str(L_Sering)][Str(L_Baik)] = Int2Num(100)

\* C17: the faculty ranking has at most 5 rows, ordered by the mean ratio in
\* descending order (faculties without a mean last), and faculties with equal
\* means appear in the order of their labels.
Cex_C17 ==
    pc = "done" =>
        /\ Len(top_proporsi) <= 5
        /\ \A a, b \in DOMAIN top_proporsi :
              a < b =>
                 /\ \/ IsNa(top_proporsi[b].mean)
                    \/ /\ ~IsNa(top_proporsi[a].mean)
                       /\ Le(top_proporsi[b].mean, top_proporsi[a].mean)
                 /\ top_proporsi[a].mean = top_proporsi[b].mean =>
                       TextLt(top_proporsi[a].group.s, top_proporsi[b].group.s)

\* what the ranking does guarantee: at most 5 rows, taken from the faculties
\* of df, no faculty twice, in descending order of the mean, and no faculty
\* left out has a higher mean than one that is shown
Thm_C17_order ==
    pc = "done" =>
        /\ Len(top_proporsi) <= 5
        /\ \A a, b \in DOMAIN top_proporsi :
              a < b =>
                 /\ top_proporsi[a].group # top_proporsi[b].group
                 /\ \/ IsNa(top_proporsi[b].mean)
                    \/ /\ ~IsNa(top_proporsi[a].mean)
                       /\ Le(top_proporsi[b].mean, top_proporsi[a].mean)
        /\ \A a \in DOMAIN top_proporsi :
              \E j \in DOMAIN FakMeans(df) : FakMeans(df)[j] = top_proporsi[a]
        /\ top_proporsi # <<>> =>
              \A j \in DOMAIN FakMeans(df) :
                 \/ \E a \in DOMAIN top_proporsi : top_proporsi[a] = FakMeans(df)[j]
                 \/ /\ Len(top_proporsi) = 5
                    /\ \A a \in DOMAIN top_proporsi : ~Lt(top_proporsi[a].mean, FakMeans(df)[j].mean)

\* six faculties, five shown, two of them with equal means
Wit_C17_order ==
    /\ pc = "done"
    /\ Len(FakMeans(df)) = 6
    /\ Len(top_proporsi) = 5
    /\ \E a \in 1..4 : top_proporsi[a].mean = top_proporsi[a + 1].mean

\* C18: sisa_uang_saku is allowance minus spending in every row where both
\* are numbers, also when the allowance is 0, and missing otherwise; an
\* allowance of 1,000,000 with a spending of 300,000 gives the ratio 0.3, the
\* bucket Sedang and 700,000 remaining.
Thm_C18 ==
    Prepared /\ HasCols(df, {C_uang_saku, C_pengeluaran_fomo}) =>
        /\ HasCol(df, "sisa_uang_saku")
        /\ \A i \in Idx :
            LET u == Cell(i, C_uang_saku)
                e == Cell(i, C_pengeluaran_fomo)
                r == Cell(i, "sisa_uang_saku")
            IN /\ IsNum(u) /\ IsNum(e) =>
                    /\ IsNum(r)
                    /\ r.n * u.d * e.d = (u.n * e.d - e.n * u.d) * r.d
               /\ ~(IsNum(u) /\ IsNum(e)) => IsNa(r)
               /\ u = Int2Num(1000000) /\ e = Int2Num(300000) =>
                    /\ Cell(i, "proporsi_fomo") = Num(3, 10)
                    /\ Cell(i, "kategori_proporsi") = Str(L_Sedang)
                    /\ r = Int2Num(700000)

\* the scenario of the claim next to an answer with allowance 0
Wit_C18 ==
    /\ Prepared
    /\ NRows(df) = 2
    /\ Cell(1, C_uang_saku) = Int2Num(1000000)
    /\ Cell(1, C_pengeluaran_fomo) = Int2Num(300000)
    /\ Cell(1, "sisa_uang_saku") = Int2Num(700000)
    /\ Cell(1, "kategori_proporsi") = Str(L_Sedang)
    /\ Cell(2, C_uang_saku) = Zero
    /\ Cell(2, C_pengeluaran_fomo) = Int2Num(5)
    /\ IsNa(Cell(2, "proporsi_fomo"))
    /\ Cell(2, "sisa_uang_saku") = Int2Num(-5)

\* the widgets are as the page first shows them
DefaultSelection ==
    /\ fakultas = Str(L_Semua)
    /\ fomo = Str(L_Semua)
    /\ keuangan = Str(L_Semua)
    /\ prop_range = <<Zero, prop_max_val(df)>>
    /\ program = {}

\* C19: when the ratio column has a defined value the slider always returns a
\* range and the range filter is applied at every slider position: no row
\* with an undefined ratio is shown; with the default selection exactly the
\* rows with a defined ratio are shown, so all rows are shown only if no row
\* has an undefined ratio.
Thm_C19 ==
    Rendered /\ HasSlider(df) =>
        /\ prop_range # <<>>
        /\ \A j \in 1..Len(data) : ~IsNa(Cell(data[j], "proporsi_fomo"))
        /\ DefaultSelection =>
              /\ Range(data) = {i \in Idx : ~IsNa(Cell(i, "proporsi_fomo"))}
              /\ Len(data) = NRows(df) => \A i \in Idx : ~IsNa(Cell(i, "proporsi_fomo"))

\* the default view with one answer of undefined ratio: two of three rows shown
Wit_C19 ==
    /\ Rendered
    /\ HasSlider(df)
    /\ DefaultSelection
    /\ NRows(df) = 3
    /\ IsNa(Cell(2, "proporsi_fomo"))
    /\ data = <<1, 3>>

\* the label a missing faculty or program ends up with
L_Nan == <<"N", "a", "n">>

\* C20: in the prepared table fakultas and program_studi hold a text in every
\* row; a value missing in the file is the text "Nan" there, the faculty
\* counts have a group "Nan" with those rows like any other label (every row
\* is counted in the group of its label), and "Nan" is among the options of
\* the faculty selectbox and of the program multiselect.
Thm_C20 ==
    /\ Prepared =>
          \A c \in {C_fakultas, C_program_studi} \cap df.cols : \A i \in Idx :
              /\ Cell(i, c).k = "str"
              /\ IsNa(csv.rows[i][c]) => Cell(i, c) = Str(L_Nan)
    /\ pc = "done" /\ HasCol(df, C_fakultas) =>
          /\ {g.group : g \in fak} = {Cell(i, C_fakultas) : i \in Idx}
          /\ \A g \in fak : g.count = Cardinality({i \in Idx : Cell(i, C_fakultas) = g.group})
          /\ \A i \in Idx :
                IsNa(csv.rows[i][C_fakultas]) =>
                    /\ [group |-> Str(L_Nan),
                        count |-> Cardinality({j \in Idx : IsNa(csv.rows[j][C_fakultas])})] \in fak
                    /\ Str(L_Nan) \in SelectOptions(df, C_fakultas)
    /\ Prepared /\ HasCol(df, C_program_studi) =>
          \A i \in Idx :
              IsNa(csv.rows[i][C_program_studi]) => {Str(L_Nan)} \in ProgramChoices(df)

\* one answer without faculty and program next to one with both
Wit_C20 ==
    /\ pc = "done"
    /\ HasCols(df, {C_fakultas, C_program_studi})
    /\ NRows(df) = 2
    /\ IsNa(csv.rows[1][C_fakultas])
    /\ IsNa(csv.rows[1][C_program_studi])
    /\ Cell(1, C_fakultas) = Str(L_Nan)
    /\ Cell(1, C_program_studi) = Str(L_Nan)
    /\ fak = {[group |-> Str(L_Nan), count |-> 1],
              [group |-> Str(<<"F", "k", " ", "A">>), count |-> 1]}
    /\ Str(L_Nan) \in SelectOptions(df, C_fakultas)

====
